---- MODULE Spec2Model ----
(***************************************************************************)
(* A model of beartype's type-checking error cause sleuth                  *)
(* (beartype/_decor/_error/_errorsleuth.py): the CauseSleuth context, its  *)
(* hint setter, the dispatcher get_cause_or_none() and permute().          *)
(*                                                                         *)
(* Python values are modelled as follows.                                  *)
(*   - Optional[T]: None is the empty tuple, a present value x is <<x>>.   *)
(*   - str built by formatting: a sequence of tokens, each token a piece   *)
(*     of text; "is a substring of" is contiguous occurrence of tokens.    *)
(*   - an object with __slots__: a function from slot names to values.     *)
(*   - a call's outcome: [kind, value, exc], kind "return" or "raise".     *)
(***************************************************************************)
EXTENDS Integers, Sequences, FiniteSets, TLC

VARIABLES
    sleuth,     \* the CauseSleuth under diagnosis: None before the first is built, else <<object>>
    last,       \* the call in progress: its operation, arguments and outcome; op "none" between calls
    beartype_conf_args_to_conf, \* confcache: the dict from parameter tuples to configurations, in insertion order
    beartype_conf_id_to_conf,   \* confcache: the dict from id(conf) to conf; ids are 1, 2, ... in creation order
    beartype_conf_lock,         \* confcache: the lock; None when free, else <<thread holding it>>
    threads     \* per thread, the BeartypeConf(...) call it is in: its position, arguments and outcome

conf_vars ==
    <<beartype_conf_args_to_conf, beartype_conf_id_to_conf, beartype_conf_lock, threads>>

vars == <<sleuth, last, conf_vars>>

\* ------------------------------------------------------------------ bounds
\* permute() is called with at most this many keyword arguments.
MaxKwargs == 2

\* BeartypeConf() is called from at most this many threads.
MaxThreads == 2

\* Callers expect at most this many flexible parameters of a callable.
MaxArgsLen == 3

\* ------------------------------------------------------------- Python values
None == <<>>
Some(x) == <<x>>
Return(v) == [kind |-> "return", value |-> v, exc |-> None]
Raise(e) == [kind |-> "raise", value |-> None, exc |-> Some(e)]

\* needle occurs contiguously in hay (both token sequences).
IsSubstring(needle, hay) ==
    \E i \in 0..(Len(hay) - Len(needle)) :
        \A j \in 1..Len(needle) : hay[i + j] = needle[j]

\* --------------------------------------------------- the catalog of hints
\* The hints callers pass. "TypeVarInt" is a type variable bounded by int,
\* "Malformed" a hint the sanifier rejects, "MyFrob" a hint whose sign
\* "frobnicate" has no getter.
RawHints ==
    {"object", "Any", "int", "TupleIntStr", "List", "ListInt", "DictStrInt",
     "UnionIntStr", "MyFrob", "TypeVarInt", "Malformed"}

\* The hints of the diagnosed calls: those above, the class str, a list of
\* strings and the unions over it.
NestedHints ==
    RawHints \cup {"str", "ListStr", "UnionIntListStr", "UnionListStrIntList"}

\* repr(hint), as tokens.
repr(hint) ==
    CASE hint = "object"      -> <<"<class '", "object", "'>">>
      [] hint = "Any"         -> <<"typing.", "Any">>
      [] hint = "int"         -> <<"<class '", "int", "'>">>
      [] hint = "TupleIntStr" -> <<"(", "<class '", "int", "'>", ", ", "<class '", "str", "'>", ")">>
      [] hint = "List"        -> <<"typing.", "List">>
      [] hint = "ListInt"     -> <<"typing.", "List", "[", "int", "]">>
      [] hint = "DictStrInt"  -> <<"typing.", "Dict", "[", "str", ", ", "int", "]">>
      [] hint = "UnionIntStr" -> <<"typing.", "Union", "[", "int", ", ", "str", "]">>
      [] hint = "MyFrob"      -> <<"<class '", "MyFrob", "'>">>
      [] hint = "TypeVarInt"  -> <<"~", "T">>
      [] hint = "str"         -> <<"<class '", "str", "'>">>
      [] hint = "ListStr"     -> <<"typing.", "List", "[", "str", "]">>
      [] hint = "UnionIntListStr" ->
            <<"typing.", "Union", "[", "int", ", ", "typing.", "List", "[", "str", "]", "]">>
      [] hint = "UnionListStrIntList" ->
            <<"typing.", "Union", "[", "typing.", "List", "[", "str", "]", ", ", "int",
              ", ", "typing.", "List", "]">>
      [] OTHER                -> <<"<", hint, ">">>

\* sanify_hint_child(hint, exception_prefix): the hint in a supported form, or an
\* exception labelled with exception_prefix.
sanify_hint_child(hint, exception_prefix) ==
    CASE hint = "Malformed" ->
            Raise([cls |-> "BeartypeDecorHintNonpepException",
                   msg |-> <<exception_prefix, " type hint ">> \o repr(hint)
                           \o <<" invalid.">>])
      [] hint = "TypeVarInt" -> Return("int")
      [] OTHER -> Return(hint)

is_hint_pep(hint) ==
    hint \in {"Any", "List", "ListInt", "DictStrInt", "UnionIntStr", "MyFrob",
              "ListStr", "UnionIntListStr", "UnionListStrIntList"}

get_hint_pep_sign(hint) ==
    CASE hint = "Any" -> "Any"
      [] hint \in {"List", "ListInt", "ListStr"} -> "List"
      [] hint = "DictStrInt" -> "Dict"
      [] hint \in {"UnionIntStr", "UnionIntListStr", "UnionListStrIntList"} -> "Union"
      [] hint = "MyFrob" -> "frobnicate"

get_hint_pep_args(hint) ==
    CASE hint = "ListInt" -> <<"int">>
      [] hint = "DictStrInt" -> <<"str", "int">>
      [] hint = "UnionIntStr" -> <<"int", "str">>
      [] hint = "ListStr" -> <<"str">>
      [] hint = "UnionIntListStr" -> <<"int", "ListStr">>
      [] hint = "UnionListStrIntList" -> <<"ListStr", "int", "List">>
      [] OTHER -> <<>>

is_hint_pep_args(hint) == is_hint_pep(hint) /\ get_hint_pep_args(hint) # <<>>

is_hint_ignorable(hint) == hint \in {"object", "Any"}

isinstance_tuple(hint) == hint = "TupleIntStr"

HINT_SIGNS_ORIGIN_ISINSTANCEABLE == {"List", "Dict"}

HINT_SIGNS_SUPPORTED_DEEP == {"List", "Union"}

PEP_HINT_SIGN_TO_GET_CAUSE_FUNC ==
    ("List" :> "get_cause_or_none_sequence_args_1") @@
    ("Dict" :> "get_cause_or_none_type_instance_origin") @@
    ("Union" :> "get_cause_or_none_union")

\* ------------------------------------------------------------ CauseSleuth
__slots__ ==
    {"cause_indent", "exception_prefix", "func", "hint_sign", "hint_childs",
     "pith", "random_int", "_hint"}

_INIT_PARAM_NAMES ==
    {"cause_indent", "exception_prefix", "func", "hint", "pith", "random_int"}

\* A slot no assignment has reached yet.
Unset == "<unset>"

\* The values callers pass for each parameter.
Funcs == {"f", "g"}
Piths == {"p1", "p2"}
Indents == {"", "  "}
Prefixes == {"f() parameter x", "g() return"}
RandomInts == {None, Some(7)}

\* The hint property's getter.
hint_getter(self) == self["_hint"]

\* getattr(self, name) for the names permute() reads.
getattr(self, name) == IF name = "hint" THEN hint_getter(self) ELSE self[name]

\* The hint property's setter: [exc, obj], obj being self after the call.
hint_setter(self, hint) ==
    LET sane == sanify_hint_child(hint, self["exception_prefix"]) IN
    IF sane.kind = "raise" THEN [exc |-> sane.exc, obj |-> self]
    ELSE
        LET h == sane.value
            classified ==
                IF is_hint_pep(h)
                THEN [self EXCEPT !["hint_sign"] = Some(get_hint_pep_sign(h)),
                                  !["hint_childs"] = Some(get_hint_pep_args(h))]
                ELSE self
        IN [exc |-> None, obj |-> [classified EXCEPT !["_hint"] = h]]

\* CauseSleuth.__init__(**a): [exc, obj].
CauseSleuth_init(a) ==
    LET self0 ==
            [s \in __slots__ |->
                CASE s = "func" -> a["func"]
                  [] s = "pith" -> a["pith"]
                  [] s = "cause_indent" -> a["cause_indent"]
                  [] s = "exception_prefix" -> a["exception_prefix"]
                  [] s = "random_int" -> a["random_int"]
                  [] s = "hint_sign" -> None
                  [] s = "hint_childs" -> None
                  [] s = "_hint" -> Unset]
    IN hint_setter(self0, a["hint"])

InitArgs(func, pith, hint, cause_indent, exception_prefix, random_int) ==
    [n \in _INIT_PARAM_NAMES |->
        CASE n = "func" -> func
          [] n = "pith" -> pith
          [] n = "hint" -> hint
          [] n = "cause_indent" -> cause_indent
          [] n = "exception_prefix" -> exception_prefix
          [] n = "random_int" -> random_int]

\* -------------------------------------------------------------- dispatcher
\* What the getter function the dispatcher selects may do when called with
\* the sleuth: return None (the pith satisfies the hint), return a cause, or
\* raise: an exception of its own, or one of a nested permute() or
\* get_cause_or_none() call passing through it.
DiagnoserOutcomes ==
    { Return(None),
      Return(Some(<<"pith", " not instance of ", "hint">>)),
      Raise([cls |-> "_BeartypeCallHintPepRaiseException",
             msg |-> <<"nested", " type hint ", "unsupported">>]),
      Raise([cls |-> "BeartypeDecorHintNonpepException",
             msg |-> <<"nested", " type hint ", "invalid.">>]) }

\* PEP_HINT_SIGN_TO_GET_CAUSE_FUNC.get(sign, None)
dict_get(d, key) == IF key \in DOMAIN d THEN Some(d[key]) ELSE None

\* CallGetter with a None from the getter reported as a failure of the dispatcher.
CallGetter_none_is_error(getter, consulted, outcome) ==
    [invoked |-> <<getter>>, consulted |-> consulted,
     result |-> IF outcome = Return(None)
                THEN Raise([cls |-> "_BeartypeCallHintPepRaiseException",
                            msg |-> <<getter, " found no cause.">>])
                ELSE outcome]

\* CallGetter with the getter's exception caught and reported as no cause.
CallGetter_swallowing(getter, consulted, outcome) ==
    [invoked |-> <<getter>>, consulted |-> consulted,
     result |-> IF outcome.kind = "raise" THEN Return(None) ELSE outcome]

\* The last statement of get_cause_or_none(): the selected getter is called
\* once with the sleuth and what it does is what the dispatcher does.
CallGetter(getter, consulted, outcome) ==
    [invoked |-> <<getter>>, consulted |-> consulted, result |-> outcome]

\* hint_is_ignorable tested only on hints a sign identifies.
hint_is_ignorable_if_signed(self) ==
    self["hint_sign"] # None /\ is_hint_ignorable(hint_getter(self))

\* The first branch: is_hint_ignorable(self.hint).
hint_is_ignorable(self) == is_hint_ignorable(hint_getter(self))

\* untagged_getter without the test for tuple unions.
untagged_getter_class_only(self) == "get_cause_or_none_instance_type"

\* The getter of a hint no sign identifies: that of tuple unions for a tuple,
\* that of classes for anything else.
untagged_getter(self) ==
    IF isinstance_tuple(hint_getter(self))
    THEN "get_cause_or_none_instance_types_tuple"
    ELSE "get_cause_or_none_instance_type"

\* origin_condition without the test for an unsubscripted hint.
origin_condition_ignoring_args(self) ==
    /\ self["hint_sign"][1] \in HINT_SIGNS_ORIGIN_ISINSTANCEABLE
    /\ self["hint_sign"][1] \notin HINT_SIGNS_SUPPORTED_DEEP

\* The condition of the third branch: the hint originates from an origin type
\* and is either unsubscripted or not supported deeply.
origin_condition(self) ==
    /\ self["hint_sign"][1] \in HINT_SIGNS_ORIGIN_ISINSTANCEABLE
    /\ \/ ~is_hint_pep_args(hint_getter(self))
       \/ self["hint_sign"][1] \notin HINT_SIGNS_SUPPORTED_DEEP

\* unsupported_hint_exception naming the sign in place of the hint.
unsupported_hint_exception_sign(self) ==
    [cls |-> "_BeartypeCallHintPepRaiseException",
     msg |-> <<self["exception_prefix"], " type hint sign ", self["hint_sign"][1],
               " unsupported.">>]

\* The exception of the last branch, raised when no getter handles the sign.
unsupported_hint_exception(self) ==
    [cls |-> "_BeartypeCallHintPepRaiseException",
     msg |-> <<self["exception_prefix"], " type hint ">>
             \o repr(hint_getter(self))
             \o <<" unsupported (i.e., no \"get_cause_or_none_\"-prefixed getter function defined for this category of hint).">>]

\* unsupported_hint reporting no cause in place of raising.
unsupported_hint_returns_none(self) ==
    [invoked |-> <<>>, consulted |-> <<self["hint_sign"][1]>>, result |-> Return(None)]

\* What the last branch does when the table holds no getter for the sign.
unsupported_hint(self) ==
    [invoked |-> <<>>, consulted |-> <<self["hint_sign"][1]>>,
     result |-> Raise(unsupported_hint_exception(self))]

\* CauseSleuth.get_cause_or_none(self), the selected getter behaving as
\* `outcome`: the getters invoked (in order), the signs looked up in
\* PEP_HINT_SIGN_TO_GET_CAUSE_FUNC (in order) and the call's result.
get_cause_or_none(self, outcome) ==
    IF hint_is_ignorable(self)
    THEN [invoked |-> <<>>, consulted |-> <<>>, result |-> Return(None)]
    ELSE IF self["hint_sign"] = None
    THEN CallGetter(untagged_getter(self), <<>>, outcome)
    ELSE IF origin_condition(self)
    THEN CallGetter("get_cause_or_none_type_instance_origin", <<>>, outcome)
    ELSE LET getter == dict_get(PEP_HINT_SIGN_TO_GET_CAUSE_FUNC, self["hint_sign"][1]) IN
         IF getter = None
         THEN unsupported_hint(self)
         ELSE CallGetter(getter[1], <<self["hint_sign"][1]>>, outcome)

\* no_cause_found reporting that nothing is wrong.
no_cause_found_silent(exception_prefix, hint) == Return(None)

\* What get_beartype_violation() does when the diagnosis finds no cause although
\* the check failed: the two disagree, a fatal internal error.
no_cause_found(exception_prefix, hint) ==
    Raise([cls |-> "_BeartypeCallHintPepRaiseException",
           msg |-> <<exception_prefix, " violates type hint ">> \o repr(hint)
                   \o <<", but utility function get_beartype_violation() suggests this object satisfies this hint.">>])

\* get_beartype_violation(), the caller that starts a diagnosis for a pith its
\* check found to violate the hint: it builds the top-level sleuth, asks it for
\* the cause and wraps the cause in the violation to raise; no cause is an
\* inconsistency between the check and the diagnosis, raised as such.
get_beartype_violation(site, hint, outcome) ==
    LET r == CauseSleuth_init(InitArgs(site.func, site.pith, hint, "",
                                       site.exception_prefix, site.random_int))
    IN
    IF r.exc # None THEN [cause |-> None, result |-> Raise(r.exc[1])]
    ELSE
        LET cause == get_cause_or_none(r.obj, outcome).result IN
        IF cause.kind = "raise" THEN [cause |-> Some(cause), result |-> cause]
        ELSE IF cause.value = None
        THEN [cause |-> Some(cause),
              result |-> no_cause_found(site.exception_prefix, hint_getter(r.obj))]
        ELSE [cause |-> Some(cause),
              result |-> Return(Some(<<site.exception_prefix, " violates type hint ">>
                                     \o repr(hint_getter(r.obj)) \o <<", as ">>
                                     \o cause.value[1]))]

\* ----------------------------------------------------------------- permute
\* The keyword names callers pass: the parameters of __init__(), the slots,
\* and a name that is neither.
ArgNames == _INIT_PARAM_NAMES \cup __slots__ \cup {"subject"}

\* The values callers pass under each keyword name.
ArgValues(name) ==
    CASE name = "func" -> Funcs
      [] name = "pith" -> Piths
      [] name = "hint" -> RawHints
      [] name = "cause_indent" -> Indents
      [] name = "exception_prefix" -> Prefixes
      [] name = "random_int" -> RandomInts
      [] name = "hint_sign" -> {Some("List")}
      [] name = "hint_childs" -> {Some(<<"int">>)}
      [] name = "_hint" -> {"int"}
      [] OTHER -> {"p1"}

Range(seq) == {seq[k] : k \in DOMAIN seq}

\* The keyword names in the order callers write them, or in the reverse order.
ArgOrder ==
    <<"func", "pith", "hint", "cause_indent", "exception_prefix", "random_int",
      "hint_sign", "hint_childs", "_hint", "subject">>

\* The names of ArgOrder at the positions `places`, in the order of ArgOrder.
RECURSIVE InOrder(_)
InOrder(places) ==
    IF places = {} THEN <<>>
    ELSE LET first == CHOOSE k \in places : \A j \in places : k <= j IN
         <<ArgOrder[first]>> \o InOrder(places \ {first})

Reverse(seq) == [k \in 1..Len(seq) |-> seq[Len(seq) + 1 - k]]

\* kwargs.keys(): the keyword names in the order the caller wrote them.
KeySeqs ==
    LET chosen == {places \in SUBSET (1..Len(ArgOrder)) : Cardinality(places) <= MaxKwargs}
    IN {InOrder(places) : places \in chosen} \cup {Reverse(InOrder(places)) : places \in chosen}

\* The assignments of a value to each name of `names`.
RECURSIVE ValsOver(_)
ValsOver(names) ==
    IF names = {} THEN {<<>>}
    ELSE LET n == CHOOSE m \in names : TRUE IN
         {(n :> v) @@ f : v \in ArgValues(n), f \in ValsOver(names \ {n})}

\* unrecognized testing the first keyword only.
unrecognized_first_only(kwargs) ==
    {k \in DOMAIN kwargs.keys : k = 1 /\ kwargs.keys[k] \notin _INIT_PARAM_NAMES}

\* unrecognized testing the names against the attributes of the sleuth.
unrecognized_by_slots(kwargs) ==
    {k \in DOMAIN kwargs.keys : kwargs.keys[k] \notin __slots__ \cup {"hint"}}

\* The first loop of permute(): the positions in kwargs.keys() of the names that
\* are not parameters of __init__().
unrecognized(kwargs) ==
    {k \in DOMAIN kwargs.keys : kwargs.keys[k] \notin _INIT_PARAM_NAMES}

\* The second loop of permute(): kwargs completed with the receiver's values.
defaulted(self, kwargs) ==
    [n \in _INIT_PARAM_NAMES |->
        IF n \in DOMAIN kwargs.vals THEN kwargs.vals[n] ELSE getattr(self, n)]

\* permute() handing the receiver's hint_sign and hint_childs on to a copy
\* whose hint is not PEP-compliant.
permute_carrying_sign(self, kwargs) ==
    LET bad == unrecognized(kwargs) IN
    IF bad # {}
    THEN LET arg_name == kwargs.keys[CHOOSE k \in bad : \A j \in bad : k <= j] IN
         [exc |-> Some([cls |-> "_BeartypeCallHintPepRaiseException",
                        msg |-> <<"<class 'CauseSleuth'>", ".__init__() parameter ",
                                  arg_name, " unrecognized.">>]),
          ret |-> None, self |-> self]
    ELSE LET r == CauseSleuth_init(defaulted(self, kwargs))
             copy == IF is_hint_pep(r.obj["_hint"]) THEN r.obj
                     ELSE [r.obj EXCEPT !["hint_sign"] = self["hint_sign"],
                                        !["hint_childs"] = self["hint_childs"]]
         IN [exc |-> r.exc,
             ret |-> IF r.exc = None THEN Some(copy) ELSE None,
             self |-> self]

\* CauseSleuth.permute(self, **kwargs), kwargs being [keys, vals]:
\* [exc, ret, self], ret the new sleuth and self the receiver after the call.
\* permute() assigning the keyword arguments to the receiver and returning it.
permute_in_place(self, kwargs) ==
    LET bad == unrecognized(kwargs) IN
    IF bad # {}
    THEN LET arg_name == kwargs.keys[CHOOSE k \in bad : \A j \in bad : k <= j] IN
         [exc |-> Some([cls |-> "_BeartypeCallHintPepRaiseException",
                        msg |-> <<"<class 'CauseSleuth'>", ".__init__() parameter ",
                                  arg_name, " unrecognized.">>]),
          ret |-> None, self |-> self]
    ELSE LET r == CauseSleuth_init(defaulted(self, kwargs))
         IN [exc |-> r.exc,
             ret |-> IF r.exc = None THEN Some(r.obj) ELSE None,
             self |-> IF r.exc = None THEN r.obj ELSE self]

permute(self, kwargs) ==
    LET bad == unrecognized(kwargs) IN
    IF bad # {}
    THEN LET arg_name == kwargs.keys[CHOOSE k \in bad : \A j \in bad : k <= j] IN
         [exc |-> Some([cls |-> "_BeartypeCallHintPepRaiseException",
                        msg |-> <<"<class 'CauseSleuth'>", ".__init__() parameter ",
                                  arg_name, " unrecognized.">>]),
          ret |-> None, self |-> self]
    ELSE LET r == CauseSleuth_init(defaulted(self, kwargs))
         IN [exc |-> r.exc,
             ret |-> IF r.exc = None THEN Some(r.obj) ELSE None,
             self |-> self]

\* -------------------------------------------------------------- diagnosers
\* The piths of the diagnosed calls, each named by its repr().
NestedPiths == {"1", "'x'", "3.5", "[]", "['a', 'b']", "[1, 2, 'x', 3.5]"}

\* type(pith).__name__
type(pith) ==
    CASE pith \in {"1", "2"} -> "int"
      [] pith \in {"'x'", "'a'", "'b'"} -> "str"
      [] pith = "3.5" -> "float"
      [] pith \in {"[]", "['a', 'b']", "[1, 2, 'x', 3.5]"} -> "list"
      [] pith \in {"f0", "f2", "fargs", "fkwargs", "wrapper_f2", "wrapper_wrapper_f2"} ->
            "function"
      [] pith \in {"len", "iter"} -> "builtin_function_or_method"
      [] pith = "C().method" -> "method"
      [] pith = "classmethod(f0)" -> "classmethod"
      [] pith = "staticmethod(f0)" -> "staticmethod"
      [] OTHER -> "Pith"

\* The items of a list, in order.
items(pith) ==
    CASE pith = "['a', 'b']" -> <<"'a'", "'b'">>
      [] pith = "[1, 2, 'x', 3.5]" -> <<"1", "2", "'x'", "3.5">>
      [] OTHER -> <<>>

\* isinstance(pith, cls) for the class named cls.
isinstance(pith, cls) == cls = "object" \/ type(pith) = cls

\* The classes of a tuple union.
tuple_classes(hint) == IF hint = "TupleIntStr" THEN <<"int", "str">> ELSE <<>>

\* The class a hint with an isinstanceable sign originates from.
get_hint_pep_origin_type(sign) ==
    CASE sign = "List" -> "list"
      [] sign = "Dict" -> "dict"

\* The diagnoser of plain classes.
get_cause_or_none_instance_type(self) ==
    IF isinstance(self["pith"], hint_getter(self))
    THEN Return(None)
    ELSE Return(Some(<<self["pith"], " not instance of ">> \o repr(hint_getter(self))))

\* The diagnoser of tuple unions: the pith fails only if it is an instance of
\* none of the classes, and the explanation names them all.
get_cause_or_none_instance_types_tuple(self) ==
    LET classes == tuple_classes(hint_getter(self)) IN
    IF \E i \in 1..Len(classes) : isinstance(self["pith"], classes[i])
    THEN Return(None)
    ELSE Return(Some(<<self["pith"], " not instance of ">> \o repr(hint_getter(self))))

\* The diagnoser of hints checked shallowly against their origin class.
get_cause_or_none_type_instance_origin(self) ==
    IF isinstance(self["pith"], get_hint_pep_origin_type(self["hint_sign"][1]))
    THEN Return(None)
    ELSE Return(Some(<<self["pith"], " not instance of ",
                       get_hint_pep_origin_type(self["hint_sign"][1])>>))

RECURSIVE diagnose(_)
RECURSIVE union_from(_, _)
RECURSIVE sequence_from(_, _)

\* sleuth.permute(**kwargs).get_cause_or_none(): the step by which a diagnoser
\* descends; what permute() raises passes through.
child_cause(self, kwargs) ==
    LET r == permute(self, kwargs) IN
    IF r.exc # None THEN Raise(r.exc[1]) ELSE diagnose(r.ret[1])

\* The union diagnoser's loop from child i on (1-based).
union_from(self, i) ==
    IF i > Len(self["hint_childs"][1])
    THEN Return(None)
    ELSE LET cause == child_cause(self, [keys |-> <<"hint">>,
                                         vals |-> ("hint" :> self["hint_childs"][1][i])])
         IN IF cause = Return(None) THEN union_from(self, i + 1) ELSE cause

\* The union diagnoser reporting no cause as soon as some child is satisfied.
get_cause_or_none_union_satisfied(self) ==
    LET childs == self["hint_childs"][1]
        cause(i) == child_cause(self, [keys |-> <<"hint">>, vals |-> ("hint" :> childs[i])])
    IN IF \E i \in 1..Len(childs) : cause(i) = Return(None)
       THEN Return(None)
       ELSE union_from(self, 1)

\* The union diagnoser: each child in order against the same pith through a
\* derived sleuth; the first explanation wins; no cause if no child has one.
get_cause_or_none_union(self) == union_from(self, 1)

\* What the sequence diagnoser reports for the item at index (0-based).
sequence_item(self, index) ==
    LET cause == child_cause(self, [keys |-> <<"pith", "hint">>,
                                    vals |-> ("pith" :> items(self["pith"])[index + 1]) @@
                                             ("hint" :> self["hint_childs"][1][1])])
    IN IF cause.kind = "return" /\ cause.value # None
       THEN Return(Some(<<"index ", ToString(index), " item ">> \o cause.value[1]))
       ELSE cause

\* The sequence diagnoser's exhaustive loop examining the last item only.
sequence_from_last(self, index) ==
    IF Len(items(self["pith"])) = 0
    THEN Return(None)
    ELSE sequence_item(self, Len(items(self["pith"])) - 1)

\* The sequence diagnoser's exhaustive loop from index on (0-based).
sequence_from(self, index) ==
    IF index >= Len(items(self["pith"]))
    THEN Return(None)
    ELSE LET cause == sequence_item(self, index)
         IN IF cause = Return(None) THEN sequence_from(self, index + 1) ELSE cause

\* The sequence diagnoser: a pith that is no list fails as such; otherwise
\* every item is checked (exhaustive mode, no random_int) or the one item the
\* random_int selects (probabilistic mode); the first failing item's
\* explanation is returned, prefixed with its index.
get_cause_or_none_sequence_args_1(self) ==
    IF ~isinstance(self["pith"], "list")
    THEN get_cause_or_none_type_instance_origin(self)
    ELSE IF items(self["pith"]) = <<>>
    THEN Return(None)
    ELSE IF self["random_int"] = None
    THEN sequence_from(self, 0)
    ELSE sequence_item(self, self["random_int"][1] % Len(items(self["pith"])))

\* The getter the dispatcher selected, called with the sleuth.
call_getter(getter, self) ==
    CASE getter = "get_cause_or_none_instance_type" ->
            get_cause_or_none_instance_type(self)
      [] getter = "get_cause_or_none_instance_types_tuple" ->
            get_cause_or_none_instance_types_tuple(self)
      [] getter = "get_cause_or_none_type_instance_origin" ->
            get_cause_or_none_type_instance_origin(self)
      [] getter = "get_cause_or_none_union" ->
            get_cause_or_none_union(self)
      [] getter = "get_cause_or_none_sequence_args_1" ->
            get_cause_or_none_sequence_args_1(self)

\* sleuth.get_cause_or_none() with the getters above: the dispatcher selects
\* the getter and the getter's outcome is the call's.
diagnose(self) ==
    LET selected == get_cause_or_none(self, Return(None)).invoked IN
    IF selected = <<>>
    THEN get_cause_or_none(self, Return(None)).result
    ELSE get_cause_or_none(self, call_getter(selected[1], self)).result

\* ------------------------------------------------------------ BeartypeConf
\* The values callers pass as parameters: a type and a number standing for the
\* value among those of its type. bool is a subclass of int: True is 1 and
\* False is 0.
BoolValue(n) == [type |-> "bool", n |-> n]
IntValue(n) == [type |-> "int", n |-> n]
NoneValue == [type |-> "NoneType", n |-> 0]
StrValue(n) == [type |-> "str", n |-> n]
Strategy(n) == [type |-> "BeartypeStrategy", n |-> n]

\* The members of the enumeration BeartypeStrategy that are passed: O1 and On.
BeartypeStrategy == {Strategy(2), Strategy(4)}

\* a == b on parameter values: numbers compare by value, whatever their types
\* (True == 1, False == 0) and hash alike; other values compare as themselves.
py_eq(a, b) ==
    IF a.type \in {"bool", "int"} /\ b.type \in {"bool", "int"}
    THEN a.n = b.n
    ELSE a = b

\* isinstance(value, bool)
is_bool(value) == value.type = "bool"

\* isinstance(value, NoneTypeOr[bool])
is_bool_or_none(value) == value.type \in {"bool", "NoneType"}

\* isinstance(value, BeartypeStrategy)
is_strategy(value) == value.type = "BeartypeStrategy"

\* repr(value), one token.
repr_arg(value) ==
    CASE value = BoolValue(1) -> "True"
      [] value = BoolValue(0) -> "False"
      [] value = NoneValue -> "None"
      [] value.type = "int" -> ToString(value.n)
      [] value = StrValue(1) -> "'yes'"
      [] value = StrValue(2) -> "'O1'"
      [] value = Strategy(2) -> "<BeartypeStrategy.O1: 2>"
      [] value = Strategy(4) -> "<BeartypeStrategy.On: 4>"

\* The value a token printed by repr() denotes.
eval_arg(token) ==
    CASE token = "True" -> BoolValue(1)
      [] token = "False" -> BoolValue(0)
      [] token = "None" -> NoneValue
      [] token = "0" -> IntValue(0)
      [] token = "1" -> IntValue(1)
      [] token = "2" -> IntValue(2)
      [] token = "'yes'" -> StrValue(1)
      [] token = "'O1'" -> StrValue(2)
      [] token = "<BeartypeStrategy.O1: 2>" -> Strategy(2)
      [] token = "<BeartypeStrategy.On: 4>" -> Strategy(4)

\* The parameters of __new__(), in the order of the tuple beartype_conf_args.
ConfParams == <<"claw_is_pep526", "is_color", "is_debug", "is_pep484_tower", "strategy">>

\* The parameter tuple of BeartypeConf(): the defaults of __new__().
DefaultArgs == <<BoolValue(1), NoneValue, BoolValue(0), BoolValue(0), Strategy(2)>>

\* The parameter tuples callers pass.
ConfCalls ==
    { DefaultArgs,
      <<BoolValue(1), NoneValue, BoolValue(1), BoolValue(0), Strategy(4)>>,
      <<IntValue(1), NoneValue, IntValue(0), IntValue(0), Strategy(2)>>,
      <<BoolValue(1), NoneValue, IntValue(1), BoolValue(0), Strategy(4)>>,
      <<IntValue(2), NoneValue, BoolValue(0), BoolValue(0), Strategy(2)>>,
      <<BoolValue(1), StrValue(1), BoolValue(0), BoolValue(0), Strategy(2)>>,
      <<BoolValue(1), NoneValue, BoolValue(0), NoneValue, Strategy(2)>>,
      <<BoolValue(1), NoneValue, BoolValue(0), BoolValue(0), StrValue(2)>> }

\* tuple.__eq__ on parameter tuples.
args_eq(a, b) == \A i \in 1..Len(ConfParams) : py_eq(a[i], b[i])

\* `key in dict` finding no key at all.
dict_contains_never(dict, key) == FALSE

\* `key in dict` for a dict keyed by parameter tuples: some key of the dict
\* equals (and therefore hashes as) the key.
dict_contains(dict, key) == \E i \in 1..Len(dict) : args_eq(dict[i].key, key)

\* dict[key]
dict_getitem(dict, key) ==
    dict[CHOOSE i \in 1..Len(dict) : args_eq(dict[i].key, key)].value

\* dict[key] = value: the value of an equal key is replaced, the key kept;
\* otherwise the item is added.
dict_setitem(dict, key, value) ==
    IF \E i \in 1..Len(dict) : args_eq(dict[i].key, key)
    THEN [i \in 1..Len(dict) |->
            IF args_eq(dict[i].key, key) THEN [key |-> dict[i].key, value |-> value]
            ELSE dict[i]]
    ELSE Append(dict, [key |-> key, value |-> value])

BeartypeConfException(msg) == [cls |-> "BeartypeConfException", msg |-> msg]

\* The elif chain validating the parameters: None if all are valid, else the
\* exception raised.
validate(args) ==
    IF ~is_bool(args[1])
    THEN Some(BeartypeConfException(
            <<"Beartype configuration parameter \"claw_is_pep526\" value ",
              repr_arg(args[1]), " not boolean.">>))
    ELSE IF ~is_bool_or_none(args[2])
    THEN Some(BeartypeConfException(
            <<"Beartype configuration parameter \"is_color\" value ",
              repr_arg(args[2]),
              " not tri-state boolean (i.e., \"True\", \"False\", or \"None\").">>))
    ELSE IF ~is_bool(args[3])
    THEN Some(BeartypeConfException(
            <<"Beartype configuration parameter \"is_debug\" value ",
              repr_arg(args[3]), " not boolean.">>))
    ELSE IF ~is_bool(args[4])
    THEN Some(BeartypeConfException(
            <<"Beartype configuration parameter \"is_pep484_tower\" value ",
              repr_arg(args[3]), " not boolean.">>))
    ELSE IF ~is_strategy(args[5])
    THEN Some(BeartypeConfException(
            <<"Beartype configuration parameter \"strategy\" value ",
              repr_arg(args[5]),
              " not \"beartype.BeartypeStrategy\" enumeration member.">>))
    ELSE None

BeartypeConf__slots__ ==
    {"_claw_is_pep526", "_is_color", "_is_debug", "_is_pep484_tower", "_strategy"}

\* The classes instantiated: BeartypeConf and a subclass of it that adds
\* nothing, `class SubConf(BeartypeConf): pass`.
ConfClasses == {"BeartypeConf", "SubConf"}

\* The calls callers make: every parameter tuple with BeartypeConf, the two
\* valid ones with the subclass.
ConfClsCalls ==
    { [cls |-> "BeartypeConf", args |-> args] : args \in ConfCalls } \cup
    { [cls |-> "SubConf", args |-> args] : args \in {a \in ConfCalls : validate(a) = None} }

\* The object __new__() builds from the validated parameters: an instance of
\* cls with the five slots assigned.
new_conf(cls, args) ==
    [s \in BeartypeConf__slots__ \cup {"__class__"} |->
        CASE s = "__class__" -> cls
          [] s = "_claw_is_pep526" -> args[1]
          [] s = "_is_color" -> args[2]
          [] s = "_is_debug" -> args[3]
          [] s = "_is_pep484_tower" -> args[4]
          [] s = "_strategy" -> args[5]]

\* The tuple BeartypeConf.__hash__() hashes.
conf_args(self) ==
    <<self["_claw_is_pep526"], self["_is_color"], self["_is_debug"],
      self["_is_pep484_tower"], self["_strategy"]>>

\* Objects that are not configurations: a tuple of the default parameters and
\* None.
NonConfs == {"__class__" :> "tuple", "__class__" :> "NoneType"}

\* isinstance(other, BeartypeConf): instances of subclasses included.
isinstance_BeartypeConf(other) == other["__class__"] \in ConfClasses

\* The singleton a rich comparison returns for operands it does not support.
NotImplemented == [type |-> "NotImplementedType", n |-> 0]

\* __eq__() comparing the first two settings only.
__eq__two_settings(self, other) ==
    IF isinstance_BeartypeConf(other)
    THEN BoolValue(IF /\ py_eq(self["_claw_is_pep526"], other["_claw_is_pep526"])
                      /\ py_eq(self["_is_color"], other["_is_color"])
                   THEN 1 ELSE 0)
    ELSE NotImplemented

\* BeartypeConf.__eq__(self, other)
__eq__(self, other) ==
    IF isinstance_BeartypeConf(other)
    THEN BoolValue(IF /\ py_eq(self["_claw_is_pep526"], other["_claw_is_pep526"])
                      /\ py_eq(self["_is_color"], other["_is_color"])
                      /\ py_eq(self["_is_debug"], other["_is_debug"])
                      /\ py_eq(self["_is_pep484_tower"], other["_is_pep484_tower"])
                      /\ py_eq(self["_strategy"], other["_strategy"])
                   THEN 1 ELSE 0)
    ELSE NotImplemented

\* hash(value) of a parameter value: numbers equal by value hash alike (the
\* hash of True is that of 1), other values hash as themselves.
py_hash(value) ==
    IF value.type \in {"bool", "int"} THEN IntValue(value.n) ELSE value

\* BeartypeConf.__hash__(self): the hash of the tuple of the five settings, a
\* combination of the hashes of its items in order.
__hash__(self) ==
    <<py_hash(self["_claw_is_pep526"]), py_hash(self["_is_color"]),
      py_hash(self["_is_debug"]), py_hash(self["_is_pep484_tower"]),
      py_hash(self["_strategy"])>>

\* __repr__() printing is_debug where is_pep484_tower belongs.
__repr__is_debug_twice(self) ==
    <<self["__class__"], "(",
      "claw_is_pep526=", repr_arg(self["_claw_is_pep526"]), ", ",
      "is_color=", repr_arg(self["_is_color"]), ", ",
      "is_debug=", repr_arg(self["_is_debug"]), ", ",
      "is_pep484_tower=", repr_arg(self["_is_debug"]), ", ",
      "strategy=", repr_arg(self["_strategy"]), ")">>

\* BeartypeConf.__repr__(self), as tokens.
__repr__(self) ==
    <<self["__class__"], "(",
      "claw_is_pep526=", repr_arg(self["_claw_is_pep526"]), ", ",
      "is_color=", repr_arg(self["_is_color"]), ", ",
      "is_debug=", repr_arg(self["_is_debug"]), ", ",
      "is_pep484_tower=", repr_arg(self["_is_pep484_tower"]), ", ",
      "strategy=", repr_arg(self["_strategy"]), ")">>

\* The parameter tuple a representation spells: per parameter, the value of
\* the token that follows "<parameter>=".
repr_args(text) ==
    LET after(keyword) == text[(CHOOSE i \in 1..Len(text) : text[i] = keyword) + 1]
    IN <<eval_arg(after("claw_is_pep526=")), eval_arg(after("is_color=")),
         eval_arg(after("is_debug=")), eval_arg(after("is_pep484_tower=")),
         eval_arg(after("strategy="))>>

\* A lock any thread may enter.
lock_free_always(lock) == TRUE

\* beartype_conf_lock can be entered: no thread holds it.
lock_free(lock) == lock = None

Threads == 1..MaxThreads

\* A thread outside BeartypeConf(): no call, no class, no arguments, no
\* outcome.
NoCall ==
    [pc |-> "idle", cls |-> None, args |-> <<>>, via |-> None, self |-> None,
     result |-> None]

\* BEARTYPE_CONF_DEFAULT: the first configuration, created on import.
BEARTYPE_CONF_DEFAULT == 1

\* --------------------------------------------------------- utilfuncargtest
\* The objects passed as func: f0 is `def f0()`, f2 is `def f2(a, b)`, fargs is
\* `def fargs(*args)`, fkwargs is `def fkwargs(**kwargs)`, wrapper_f2 is
\* `def wrapper(*args, **kwargs)` wrapping f2 (its __wrapped__),
\* wrapper_wrapper_f2 is such a wrapper of wrapper_f2, len is a builtin
\* implemented in C and 42 is not callable.
ArgFuncs ==
    {"f0", "f2", "fargs", "fkwargs", "wrapper_f2", "wrapper_wrapper_f2", "len", "42"}

\* The callables the unwrappers are tested on: functions, wrappers, builtins
\* and a bound method.
Callables ==
    {"f0", "f2", "fargs", "fkwargs", "wrapper_f2", "wrapper_wrapper_f2", "len", "iter",
     "C().method"}

\* The class method and static method descriptors of f0, as found in the
\* __dict__ of their class.
Descriptors == {"classmethod(f0)", "staticmethod(f0)"}

\* The exception classes and the message prefixes callers pass.
ExceptionClasses == {"_BeartypeUtilCallableException", "BeartypeDecorWrappeeException"}
ExceptionPrefixes == {"", "@beartyped "}

\* func.__wrapped__: the callable a wrapper made by functools.wraps() wraps;
\* None for an object without that attribute.
__wrapped__(func) ==
    CASE func = "wrapper_f2" -> Some("f2")
      [] func = "wrapper_wrapper_f2" -> Some("wrapper_f2")
      [] OTHER -> None

\* descriptor.__func__: the function a class or static method descriptor wraps.
__func__(func) ==
    CASE func = "classmethod(f0)" -> "f0"
      [] func = "staticmethod(f0)" -> "f0"

\* unwrap_func_all() removing one wrapper only.
unwrap_func_once(func) ==
    IF __wrapped__(func) = None THEN func ELSE __wrapped__(func)[1]

RECURSIVE unwrap_func_all(_)
\* unwrap_func_all(func): the lowest-level wrappee, func itself if it wraps
\* nothing.
unwrap_func_all(func) ==
    IF __wrapped__(func) = None THEN func ELSE unwrap_func_all(__wrapped__(func)[1])

\* The exception the descriptor unwrappers raise for any other object.
not_descriptor(func, kind) ==
    Raise([cls |-> "_BeartypeUtilCallableWrapperException",
           msg |-> repr(func) \o <<" not ", kind, " method descriptor.">>])

\* unwrap_func_classmethod() accepting any method descriptor.
unwrap_func_any_descriptor(func) ==
    IF type(func) \in {"classmethod", "staticmethod"}
    THEN Return(__func__(func))
    ELSE not_descriptor(func, "class")

\* unwrap_func_classmethod(func): the function a class method descriptor wraps.
unwrap_func_classmethod(func) ==
    IF type(func) = "classmethod"
    THEN Return(__func__(func))
    ELSE not_descriptor(func, "class")

\* unwrap_func_staticmethod(func): the function a static method descriptor wraps.
unwrap_func_staticmethod(func) ==
    IF type(func) = "staticmethod"
    THEN Return(__func__(func))
    ELSE not_descriptor(func, "static")

\* The number of flexible parameters in the signature of a pure-Python callable.
co_argcount(func) ==
    CASE func = "f0" -> 0
      [] func = "f2" -> 2
      [] func \in {"fargs", "fkwargs", "wrapper_f2", "wrapper_wrapper_f2"} -> 0

\* Whether the signature of a pure-Python callable has a variadic positional
\* parameter (*args).
has_var_positional(func) == func \in {"fargs", "wrapper_f2", "wrapper_wrapper_f2"}

\* Whether the signature of a pure-Python callable has a variadic keyword
\* parameter (**kwargs).
has_var_keyword(func) == func \in {"fkwargs", "wrapper_f2", "wrapper_wrapper_f2"}

\* The indices of the tuple get_func_args_lens() returns at which the numbers
\* of variadic positional and of variadic keyword parameters stand.
ARGS_LENS_INDEX_VAR_POS == "ARGS_LENS_INDEX_VAR_POS"
ARGS_LENS_INDEX_VAR_KW == "ARGS_LENS_INDEX_VAR_KW"

\* get_func_args_lens(func, is_unwrap, exception_cls, exception_prefix): per
\* kind of parameter, how many func (its wrappee if is_unwrap) accepts: an int,
\* 0 or 1 for the variadic kinds; an exception of exception_cls if func is not
\* a pure-Python callable.
get_func_args_lens(func, is_unwrap, exception_cls, exception_prefix) ==
    IF func \in {"len", "42"}
    THEN Raise([cls |-> exception_cls,
                msg |-> <<exception_prefix>> \o repr(func)
                        \o <<" not pure-Python callable.">>])
    ELSE LET f == IF is_unwrap THEN unwrap_func_all(func) ELSE func IN
         Return((ARGS_LENS_INDEX_VAR_POS :>
                    IntValue(IF has_var_positional(f) THEN 1 ELSE 0)) @@
                (ARGS_LENS_INDEX_VAR_KW :>
                    IntValue(IF has_var_keyword(f) THEN 1 ELSE 0)))

\* bool(value) for a number.
bool(value) == BoolValue(IF value.n # 0 THEN 1 ELSE 0)

\* is_func_arg_variadic() looking at the variadic positional parameter only.
is_func_arg_variadic_no_keyword(func, is_unwrap, exception_cls, exception_prefix) ==
    LET func_args_lens == get_func_args_lens(func, is_unwrap, exception_cls,
                                             exception_prefix)
    IN IF func_args_lens.kind = "raise" THEN func_args_lens
       ELSE Return(bool(func_args_lens.value[ARGS_LENS_INDEX_VAR_POS]))

\* is_func_arg_variadic(func, is_unwrap, exception_cls, exception_prefix)
is_func_arg_variadic(func, is_unwrap, exception_cls, exception_prefix) ==
    LET func_args_lens == get_func_args_lens(func, is_unwrap, exception_cls,
                                             exception_prefix)
    IN IF func_args_lens.kind = "raise" THEN func_args_lens
       ELSE Return(bool(IntValue(func_args_lens.value[ARGS_LENS_INDEX_VAR_POS].n +
                                 func_args_lens.value[ARGS_LENS_INDEX_VAR_KW].n)))

\* is_func_arg_variadic_positional(func, is_unwrap, exception_cls, exception_prefix)
is_func_arg_variadic_positional(func, is_unwrap, exception_cls, exception_prefix) ==
    LET func_args_lens == get_func_args_lens(func, is_unwrap, exception_cls,
                                             exception_prefix)
    IN IF func_args_lens.kind = "raise" THEN func_args_lens
       ELSE Return(func_args_lens.value[ARGS_LENS_INDEX_VAR_POS])

\* is_func_arg_variadic_keyword(func, is_unwrap, exception_cls, exception_prefix)
is_func_arg_variadic_keyword(func, is_unwrap, exception_cls, exception_prefix) ==
    LET func_args_lens == get_func_args_lens(func, is_unwrap, exception_cls,
                                             exception_prefix)
    IN IF func_args_lens.kind = "raise" THEN func_args_lens
       ELSE Return(func_args_lens.value[ARGS_LENS_INDEX_VAR_KW])

\* get_func_args_flexible_len(func, is_unwrap, exception_cls, exception_prefix):
\* the number of flexible parameters of func, or of its wrappee if is_unwrap;
\* an exception of exception_cls if func is not a pure-Python callable.
get_func_args_flexible_len(func, is_unwrap, exception_cls, exception_prefix) ==
    IF func \in {"len", "42"}
    THEN Raise([cls |-> exception_cls,
                msg |-> <<exception_prefix>> \o repr(func)
                        \o <<" not pure-Python callable.">>])
    ELSE Return(co_argcount(IF is_unwrap THEN unwrap_func_all(func) ELSE func))

\* The message of the exception raised for a differing count.
args_len_message(func, actual, expected, exception_prefix) ==
    <<exception_prefix, "callable ">> \o repr(func)
        \o <<" flexible argument count ", ToString(actual), " != ", ToString(expected),
             " (i.e., ">> \o repr(func)
        \o <<" accepts ", ToString(actual), " rather than ", ToString(expected),
             " positional and/or keyword parameters).">>

\* die_unless_func_args_len_flexible_equal() raising only for too few parameters.
die_unless_func_args_len_flexible_fewer(func, func_args_len_flexible, is_unwrap, exception_cls, exception_prefix) ==
    LET actual == get_func_args_flexible_len(func, is_unwrap, exception_cls,
                                             exception_prefix)
    IN IF actual.kind = "raise" THEN actual
       ELSE IF actual.value < func_args_len_flexible
       THEN Raise([cls |-> exception_cls,
                   msg |-> args_len_message(func, actual.value, func_args_len_flexible,
                                            exception_prefix)])
       ELSE Return(None)

\* die_unless_func_args_len_flexible_equal(func, func_args_len_flexible,
\* is_unwrap, exception_cls, exception_prefix), called with an int, a class and
\* a str as annotated (the assert statements pass): what the getter raises
\* passes through; a differing count raises; otherwise None is returned.
die_unless_func_args_len_flexible_equal(func, func_args_len_flexible, is_unwrap, exception_cls, exception_prefix) ==
    LET actual == get_func_args_flexible_len(func, is_unwrap, exception_cls,
                                             exception_prefix)
    IN IF actual.kind = "raise" THEN actual
       ELSE IF actual.value # func_args_len_flexible
       THEN Raise([cls |-> exception_cls,
                   msg |-> args_len_message(func, actual.value, func_args_len_flexible,
                                            exception_prefix)])
       ELSE Return(None)

\* ------------------------------------------------------------ state machine
Idle == last.op = "none"

\* The state once beartype is imported: no sleuth; confcls has created and
\* cached BEARTYPE_CONF_DEFAULT = BeartypeConf(); no thread is in a call.
Init ==
    /\ sleuth = None
    /\ last = [op |-> "none"]
    /\ beartype_conf_id_to_conf = <<new_conf("BeartypeConf", DefaultArgs)>>
    /\ beartype_conf_args_to_conf = <<[key |-> DefaultArgs, value |-> BEARTYPE_CONF_DEFAULT]>>
    /\ beartype_conf_lock = None
    /\ threads = [t \in Threads |-> NoCall]

\* The top-level call sites that build a sleuth: the callable, the pith, the
\* indentation, the label and the random integer they pass.
CallSites ==
    { [func |-> "f", pith |-> "p1", cause_indent |-> "",
       exception_prefix |-> "f() parameter x", random_int |-> None],
      [func |-> "g", pith |-> "p2", cause_indent |-> "  ",
       exception_prefix |-> "g() return", random_int |-> Some(7)] }

\* sleuth = CauseSleuth(func=..., pith=..., hint=..., ...)
New ==
    \E site \in CallSites, hint \in RawHints :
        LET a == InitArgs(site.func, site.pith, hint, site.cause_indent,
                          site.exception_prefix, site.random_int)
            r == CauseSleuth_init(a)
        IN /\ Idle
           /\ sleuth' = IF r.exc = None THEN Some(r.obj) ELSE sleuth
           /\ last' = [op |-> "new", args |-> a, exc |-> r.exc]
           /\ UNCHANGED conf_vars

\* sleuth.hint = hint
SetHint ==
    \E hint \in RawHints :
        LET r == hint_setter(sleuth[1], hint)
        IN /\ Idle
           /\ sleuth # None
           /\ sleuth' = Some(r.obj)
           /\ last' = [op |-> "set_hint", hint |-> hint, exc |-> r.exc]
           /\ UNCHANGED conf_vars

\* sleuth.get_cause_or_none()
GetCauseOrNone ==
    \E outcome \in DiagnoserOutcomes :
        /\ Idle
        /\ sleuth # None
        /\ last' = [op |-> "get_cause_or_none", outcome |-> outcome,
                    call |-> get_cause_or_none(sleuth[1], outcome)]
        /\ UNCHANGED <<sleuth, conf_vars>>

\* sleuth.permute(**kwargs)
Permute ==
    \E keys \in KeySeqs :
        \E vals \in ValsOver(Range(keys)) :
            LET kwargs == [keys |-> keys, vals |-> vals]
                r == permute(sleuth[1], kwargs)
            IN /\ Idle
               /\ sleuth # None
               /\ sleuth' = Some(r.self)
               /\ last' = [op |-> "permute", before |-> sleuth[1], kwargs |-> kwargs,
                           exc |-> r.exc, ret |-> r.ret]
               /\ UNCHANGED conf_vars

\* get_beartype_violation(func, pith, hint, ...)
GetBeartypeViolation ==
    \E site \in CallSites, hint \in RawHints, outcome \in DiagnoserOutcomes :
        LET v == get_beartype_violation(site, hint, outcome)
        IN /\ Idle
           /\ last' = [op |-> "get_beartype_violation", hint |-> hint,
                       cause |-> v.cause, result |-> v.result]
           /\ UNCHANGED <<sleuth, conf_vars>>

\* The caller takes the outcome of the call; the next call may begin.
Forget ==
    /\ ~Idle
    /\ last' = [op |-> "none"]
    /\ UNCHANGED <<sleuth, conf_vars>>

Next ==
    New \/ SetHint \/ GetCauseOrNone \/ Permute \/ GetBeartypeViolation \/ Forget

Spec == Init /\ [][Next]_vars

\* A getter recurses into a child: the copy that permute() returned for a new
\* pith, a new hint or both becomes the sleuth under diagnosis.
Descend ==
    /\ last.op = "permute"
    /\ last.ret # None
    /\ Range(last.kwargs.keys) \subseteq {"pith", "hint"}
    /\ sleuth' = last.ret
    /\ last' = [op |-> "none"]
    /\ UNCHANGED conf_vars

\* The caller that found a pith to violate a hint builds the top-level sleuth.
NewViolation ==
    \E site \in CallSites, pith \in NestedPiths, hint \in NestedHints :
        LET a == InitArgs(site.func, pith, hint, site.cause_indent,
                          site.exception_prefix, site.random_int)
            r == CauseSleuth_init(a)
        IN /\ Idle
           /\ sleuth' = IF r.exc = None THEN Some(r.obj) ELSE sleuth
           /\ last' = [op |-> "new", args |-> a, exc |-> r.exc]
           /\ UNCHANGED conf_vars

\* sleuth.get_cause_or_none(), the selected getter run to its end.
Diagnose ==
    /\ Idle
    /\ sleuth # None
    /\ last' = [op |-> "diagnose", result |-> diagnose(sleuth[1])]
    /\ UNCHANGED <<sleuth, conf_vars>>

NextDiagnose == NewViolation \/ Diagnose \/ Forget

SpecDiagnose == Init /\ [][NextDiagnose]_vars

\* Chains of permute() calls: on a constructed sleuth and on the copies
\* derived from it.
NextChain == New \/ Permute \/ Descend \/ Forget

SpecChain == Init /\ [][NextChain]_vars

\* Thread t calls cls(...), cls being BeartypeConf or its subclass: the
\* parameter tuple is built.
Call(t) ==
    \E call \in ConfClsCalls :
        /\ threads[t].pc = "idle"
        /\ threads' = [threads EXCEPT ![t] =
                [NoCall EXCEPT !.pc = "enter", !.cls = Some(call.cls), !.args = call.args]]
        /\ UNCHANGED <<sleuth, last, beartype_conf_args_to_conf, beartype_conf_id_to_conf,
                       beartype_conf_lock>>

\* Thread t calls the class repr(conf) names with the keyword values it
\* spells, conf a configuration created earlier.
CallRepr(t) ==
    \E id \in 1..Len(beartype_conf_id_to_conf) :
        /\ threads[t].pc = "idle"
        /\ threads' = [threads EXCEPT ![t] =
                [NoCall EXCEPT !.pc = "enter",
                               !.cls = Some(__repr__(beartype_conf_id_to_conf[id])[1]),
                               !.args = repr_args(__repr__(beartype_conf_id_to_conf[id])),
                               !.via = Some(id)]]
        /\ UNCHANGED <<sleuth, last, beartype_conf_args_to_conf, beartype_conf_id_to_conf,
                       beartype_conf_lock>>

\* with beartype_conf_lock: thread t enters.
Enter(t) ==
    /\ threads[t].pc = "enter"
    /\ lock_free(beartype_conf_lock)
    /\ beartype_conf_lock' = Some(t)
    /\ threads' = [threads EXCEPT ![t].pc = "lookup"]
    /\ UNCHANGED <<sleuth, last, beartype_conf_args_to_conf, beartype_conf_id_to_conf>>

\* if beartype_conf_args in beartype_conf_args_to_conf: return the cached
\* configuration, leaving the lock; else go on to validate.
Lookup(t) ==
    /\ threads[t].pc = "lookup"
    /\ IF dict_contains(beartype_conf_args_to_conf, threads[t].args)
       THEN /\ threads' = [threads EXCEPT
                   ![t].pc = "done",
                   ![t].result =
                       Some(Return(dict_getitem(beartype_conf_args_to_conf, threads[t].args)))]
            /\ beartype_conf_lock' = None
       ELSE /\ threads' = [threads EXCEPT ![t].pc = "validate"]
            /\ UNCHANGED beartype_conf_lock
    /\ UNCHANGED <<sleuth, last, beartype_conf_args_to_conf, beartype_conf_id_to_conf>>

\* The elif chain: an invalid parameter raises, leaving the lock.
Validate(t) ==
    /\ threads[t].pc = "validate"
    /\ IF validate(threads[t].args) # None
       THEN /\ threads' = [threads EXCEPT
                   ![t].pc = "done",
                   ![t].result = Some(Raise(validate(threads[t].args)[1]))]
            /\ beartype_conf_lock' = None
       ELSE /\ threads' = [threads EXCEPT ![t].pc = "create"]
            /\ UNCHANGED beartype_conf_lock
    /\ UNCHANGED <<sleuth, last, beartype_conf_args_to_conf, beartype_conf_id_to_conf>>

\* self = super().__new__(cls), the five assignments and the two insertions.
Create(t) ==
    LET id == Len(beartype_conf_id_to_conf) + 1 IN
    /\ threads[t].pc = "create"
    /\ beartype_conf_id_to_conf' = Append(beartype_conf_id_to_conf,
                                           new_conf(threads[t].cls[1], threads[t].args))
    /\ beartype_conf_args_to_conf' =
            dict_setitem(beartype_conf_args_to_conf, threads[t].args, id)
    /\ threads' = [threads EXCEPT ![t].pc = "exit", ![t].self = Some(id)]
    /\ UNCHANGED <<sleuth, last, beartype_conf_lock>>

\* The with block ends: the lock is left and self returned.
Exit(t) ==
    /\ threads[t].pc = "exit"
    /\ beartype_conf_lock' = None
    /\ threads' = [threads EXCEPT ![t].pc = "done",
                                  ![t].result = Some(Return(threads[t].self[1]))]
    /\ UNCHANGED <<sleuth, last, beartype_conf_args_to_conf, beartype_conf_id_to_conf>>

\* The caller takes the outcome; the thread may call again.
Done(t) ==
    /\ threads[t].pc = "done"
    /\ threads' = [threads EXCEPT ![t] = NoCall]
    /\ UNCHANGED <<sleuth, last, beartype_conf_args_to_conf, beartype_conf_id_to_conf,
                   beartype_conf_lock>>

NextConf ==
    \E t \in Threads :
        \/ Call(t) \/ CallRepr(t) \/ Enter(t) \/ Lookup(t)
        \/ Validate(t) \/ Create(t) \/ Exit(t) \/ Done(t)

SpecConf == Init /\ [][NextConf]_vars

\* self == other and the hashes of both, self a configuration created earlier
\* and other such a configuration or another object.
Eq ==
    \E i \in 1..Len(beartype_conf_id_to_conf),
       other \in {beartype_conf_id_to_conf[j] : j \in 1..Len(beartype_conf_id_to_conf)}
                 \cup NonConfs :
        /\ Idle
        /\ last' = [op |-> "__eq__",
                    self |-> beartype_conf_id_to_conf[i],
                    other |-> other,
                    result |-> __eq__(beartype_conf_id_to_conf[i], other),
                    hash_self |-> __hash__(beartype_conf_id_to_conf[i]),
                    hash_other |-> IF isinstance_BeartypeConf(other)
                                   THEN Some(__hash__(other)) ELSE None]
        /\ UNCHANGED <<sleuth, conf_vars>>

\* Configurations are created by calls and compared.
NextEq == NextConf \/ Eq \/ Forget

SpecEq == Init /\ [][NextEq]_vars


\* die_unless_func_args_len_flexible_equal(func, func_args_len_flexible, ...)
DieUnlessFuncArgsLenFlexibleEqual ==
    \E func \in ArgFuncs, func_args_len_flexible \in 0..MaxArgsLen, is_unwrap \in BOOLEAN,
       exception_cls \in ExceptionClasses, exception_prefix \in ExceptionPrefixes :
        /\ Idle
        /\ last' = [op |-> "die_unless_func_args_len_flexible_equal",
                    func |-> func,
                    func_args_len_flexible |-> func_args_len_flexible,
                    is_unwrap |-> is_unwrap,
                    exception_cls |-> exception_cls,
                    exception_prefix |-> exception_prefix,
                    result |-> die_unless_func_args_len_flexible_equal(
                                   func, func_args_len_flexible, is_unwrap,
                                   exception_cls, exception_prefix)]
        /\ UNCHANGED <<sleuth, conf_vars>>

\* unwrap_func_all(func)
UnwrapFuncAll ==
    \E func \in Callables :
        /\ Idle
        /\ last' = [op |-> "unwrap_func_all", func |-> func,
                    result |-> unwrap_func_all(func)]
        /\ UNCHANGED <<sleuth, conf_vars>>

\* unwrap_func_classmethod(func)
UnwrapFuncClassmethod ==
    \E func \in Callables \cup Descriptors :
        /\ Idle
        /\ last' = [op |-> "unwrap_func_classmethod", func |-> func,
                    result |-> unwrap_func_classmethod(func)]
        /\ UNCHANGED <<sleuth, conf_vars>>

\* unwrap_func_staticmethod(func)
UnwrapFuncStaticmethod ==
    \E func \in Callables \cup Descriptors :
        /\ Idle
        /\ last' = [op |-> "unwrap_func_staticmethod", func |-> func,
                    result |-> unwrap_func_staticmethod(func)]
        /\ UNCHANGED <<sleuth, conf_vars>>

\* is_func_arg_variadic(...), is_func_arg_variadic_positional(...) and
\* is_func_arg_variadic_keyword(...), called with the same arguments.
IsFuncArgVariadic ==
    \E func \in ArgFuncs, is_unwrap \in BOOLEAN,
       exception_cls \in ExceptionClasses, exception_prefix \in ExceptionPrefixes :
        /\ Idle
        /\ last' = [op |-> "is_func_arg_variadic",
                    func |-> func,
                    is_unwrap |-> is_unwrap,
                    exception_cls |-> exception_cls,
                    exception_prefix |-> exception_prefix,
                    variadic |-> is_func_arg_variadic(
                                     func, is_unwrap, exception_cls, exception_prefix),
                    positional |-> is_func_arg_variadic_positional(
                                     func, is_unwrap, exception_cls, exception_prefix),
                    keyword |-> is_func_arg_variadic_keyword(
                                     func, is_unwrap, exception_cls, exception_prefix)]
        /\ UNCHANGED <<sleuth, conf_vars>>

NextArgs ==
    \/ DieUnlessFuncArgsLenFlexibleEqual
    \/ UnwrapFuncAll \/ UnwrapFuncClassmethod \/ UnwrapFuncStaticmethod
    \/ IsFuncArgVariadic
    \/ Forget

SpecArgs == Init /\ [][NextArgs]_vars

\* ------------------------------------------------------------------ claims
PepRaise == "_BeartypeCallHintPepRaiseException"
OriginGetter == "get_cause_or_none_type_instance_origin"

\* A get_cause_or_none() call on the sleuth has just ended.
Dispatched == last.op = "get_cause_or_none"

\* The dispatcher's third branch, as the claims word it: the sign is shallowly
\* checkable and the hint is unsubscripted or its sign is not deeply supported.
ShallowOrigin(self) ==
    /\ self["hint_sign"][1] \in HINT_SIGNS_ORIGIN_ISINSTANCEABLE
    /\ \/ ~is_hint_pep_args(self["_hint"])
       \/ self["hint_sign"][1] \notin HINT_SIGNS_SUPPORTED_DEEP

\* A tagged, unignorable hint outside the shallow family whose sign has no getter.
Unsupported(self) ==
    /\ ~is_hint_ignorable(self["_hint"])
    /\ self["hint_sign"] # None
    /\ ~ShallowOrigin(self)
    /\ self["hint_sign"][1] \notin DOMAIN PEP_HINT_SIGN_TO_GET_CAUSE_FUNC

\* C1: get_cause_or_none() on an ignorable hint returns None at once, whatever
\* the sleuth's hint_sign, whether or not the hint is a tuple and whether or not
\* a getter is registered for the sign: no getter is invoked, the table is not
\* consulted and nothing is raised.
C1_IgnorableReturnsNone ==
    (Dispatched /\ is_hint_ignorable(sleuth[1]["_hint"]))
        => last.call = [invoked |-> <<>>, consulted |-> <<>>, result |-> Return(None)]

\* C1's case: an ignorable hint on a sleuth whose hint_sign has a registered
\* getter, which would have raised had it been called.
C1_Witness ==
    /\ Dispatched
    /\ is_hint_ignorable(sleuth[1]["_hint"])
    /\ sleuth[1]["hint_sign"] # None
    /\ sleuth[1]["hint_sign"][1] \in DOMAIN PEP_HINT_SIGN_TO_GET_CAUSE_FUNC
    /\ last.outcome.kind = "raise"

\* C2: for an unignorable tagged hint outside the shallow family whose sign has
\* no entry in PEP_HINT_SIGN_TO_GET_CAUSE_FUNC, get_cause_or_none() raises
\* _BeartypeCallHintPepRaiseException and invokes no getter; it returns nothing.
C2_UnsupportedRaises ==
    (Dispatched /\ Unsupported(sleuth[1]))
        => /\ last.call.result.kind = "raise"
           /\ last.call.result.value = None
           /\ last.call.result.exc[1].cls = PepRaise
           /\ last.call.invoked = <<>>

\* C2's case: an unsupported sign, with a getter that would have returned a cause.
C2_Witness ==
    /\ Dispatched
    /\ Unsupported(sleuth[1])
    /\ last.outcome.kind = "return"
    /\ last.outcome.value # None

\* C3 as claimed: the message of the exception raised for an unsupported sign
\* holds the sign identifier as a substring.
C3_MessageHoldsSign ==
    (Dispatched /\ Unsupported(sleuth[1]))
        => /\ last.call.result.kind = "raise"
           /\ IsSubstring(<<sleuth[1]["hint_sign"][1]>>, last.call.result.exc[1].msg)

\* C3 as amended: the message of the exception raised for an unsupported sign
\* starts with the sleuth's exception_prefix and holds repr() of the hint as a
\* substring.
C3_MessageHoldsHintRepr ==
    (Dispatched /\ Unsupported(sleuth[1]))
        => /\ last.call.result.kind = "raise"
           /\ last.call.result.exc[1].msg[1] = sleuth[1]["exception_prefix"]
           /\ IsSubstring(repr(sleuth[1]["_hint"]), last.call.result.exc[1].msg)

\* C3's case: the exception raised for the unsupported sign "frobnicate".
C3_Witness ==
    /\ Dispatched
    /\ Unsupported(sleuth[1])
    /\ sleuth[1]["hint_sign"] = Some("frobnicate")
    /\ last.call.result.kind = "raise"

\* C4: for an unignorable tagged hint, get_cause_or_none() calls the
\* shallow-origin getter directly exactly when the sign is in
\* HINT_SIGNS_ORIGIN_ISINSTANCEABLE and the hint is unsubscripted or its sign is
\* not in HINT_SIGNS_SUPPORTED_DEEP; otherwise it consults the table under the
\* sign and does not call the shallow-origin getter.
C4_ShallowOriginExactly ==
    (Dispatched /\ ~is_hint_ignorable(sleuth[1]["_hint"]) /\ sleuth[1]["hint_sign"] # None)
        => IF ShallowOrigin(sleuth[1])
           THEN /\ last.call.invoked = <<OriginGetter>>
                /\ last.call.consulted = <<>>
           ELSE /\ last.call.consulted = <<sleuth[1]["hint_sign"][1]>>
                /\ OriginGetter \notin Range(last.call.invoked)

\* C4's case: an unsubscripted hint whose sign is both shallowly checkable and
\* deeply supported.
C4_Witness ==
    /\ Dispatched
    /\ ~is_hint_ignorable(sleuth[1]["_hint"])
    /\ sleuth[1]["hint_sign"] # None
    /\ sleuth[1]["hint_sign"][1] \in
           HINT_SIGNS_ORIGIN_ISINSTANCEABLE \cap HINT_SIGNS_SUPPORTED_DEEP
    /\ ~is_hint_pep_args(sleuth[1]["_hint"])
    /\ last.call.invoked = <<OriginGetter>>

\* C5: for an unignorable hint whose hint_sign is None, get_cause_or_none()
\* invokes exactly one getter exactly once, that of tuple unions if the hint is a
\* tuple and that of classes otherwise, and never consults the table.
C5_UntaggedGetter ==
    (Dispatched /\ ~is_hint_ignorable(sleuth[1]["_hint"]) /\ sleuth[1]["hint_sign"] = None)
        => /\ last.call.invoked =
                <<IF isinstance_tuple(sleuth[1]["_hint"])
                  THEN "get_cause_or_none_instance_types_tuple"
                  ELSE "get_cause_or_none_instance_type">>
           /\ last.call.consulted = <<>>

\* C5's case: an untagged tuple union.
C5_Witness ==
    /\ Dispatched
    /\ sleuth[1]["hint_sign"] = None
    /\ isinstance_tuple(sleuth[1]["_hint"])
    /\ Len(last.call.invoked) = 1

\* C6: get_cause_or_none() invokes at most one getter, and what that getter
\* returns, None or a string, is what get_cause_or_none() returns: a None is
\* returned as None and not raised.
C6_ReturnsGetterValue ==
    Dispatched
        => /\ Len(last.call.invoked) <= 1
           /\ (last.call.invoked # <<>> /\ last.outcome.kind = "return")
                => last.call.result = last.outcome

\* C6's case: the selected getter found the pith to satisfy the hint.
C6_Witness ==
    /\ Dispatched
    /\ last.call.invoked # <<>>
    /\ last.outcome = Return(None)
    /\ last.call.result = Return(None)

\* C7: a diagnosis get_beartype_violation() starts for a violating pith never
\* ends by returning None: when the sleuth finds no cause, the diagnosis ends in
\* the fatal _BeartypeCallHintPepRaiseException.
C7_NoCauseIsFatal ==
    last.op = "get_beartype_violation"
        => /\ ~(last.result.kind = "return" /\ last.result.value = None)
           /\ last.cause = Some(Return(None))
                => /\ last.result.kind = "raise"
                   /\ last.result.exc[1].cls = PepRaise

\* C7's case: the getter of an unignorable hint returned None to the top level.
C7_Witness ==
    /\ last.op = "get_beartype_violation"
    /\ ~is_hint_ignorable(last.hint)
    /\ last.cause = Some(Return(None))
    /\ last.result.kind = "raise"

\* The hint and label a permute() call hands to the constructor.
PermutedHint ==
    IF "hint" \in DOMAIN last.kwargs.vals
    THEN last.kwargs.vals["hint"] ELSE last.before["_hint"]
PermutedPrefix ==
    IF "exception_prefix" \in DOMAIN last.kwargs.vals
    THEN last.kwargs.vals["exception_prefix"] ELSE last.before["exception_prefix"]

\* C8: an exception raised while diagnosing leaves the call as that same
\* exception: the one the selected getter raises leaves get_cause_or_none(), and
\* the one the sanifier raises when a sleuth is built leaves the constructor and
\* permute(), which then build no sleuth.
C8_ExceptionsPropagate ==
    /\ (Dispatched /\ last.call.invoked # <<>> /\ last.outcome.kind = "raise")
            => last.call.result = last.outcome
    /\ (last.op = "new"
        /\ sanify_hint_child(last.args["hint"], last.args["exception_prefix"]).kind = "raise")
            => last.exc = sanify_hint_child(last.args["hint"],
                                            last.args["exception_prefix"]).exc
    /\ (last.op = "permute"
        /\ Range(last.kwargs.keys) \subseteq _INIT_PARAM_NAMES
        /\ sanify_hint_child(PermutedHint, PermutedPrefix).kind = "raise")
            => /\ last.exc = sanify_hint_child(PermutedHint, PermutedPrefix).exc
               /\ last.ret = None

\* C8's case: the selected getter raised the sanifier's exception.
C8_Witness ==
    /\ Dispatched
    /\ last.call.invoked # <<>>
    /\ last.outcome.kind = "raise"
    /\ last.outcome.exc[1].cls = "BeartypeDecorHintNonpepException"

\* C9: permute() raises _BeartypeCallHintPepRaiseException whenever some keyword
\* is not a parameter of __init__(), valid keywords beside it or not; the test
\* precedes the construction, so no sleuth is built and the receiver is unchanged.
C9_UnknownKeywordRaises ==
    (last.op = "permute"
     /\ \E k \in DOMAIN last.kwargs.keys : last.kwargs.keys[k] \notin _INIT_PARAM_NAMES)
        => /\ last.exc # None
           /\ last.exc[1].cls = PepRaise
           /\ last.ret = None
           /\ sleuth = Some(last.before)

\* C9's case: a valid keyword whose value the constructor would reject, followed
\* by an unknown one.
C9_Witness ==
    /\ last.op = "permute"
    /\ Len(last.kwargs.keys) = 2
    /\ last.kwargs.keys[1] = "hint"
    /\ last.kwargs.vals["hint"] = "Malformed"
    /\ last.kwargs.keys[2] \notin _INIT_PARAM_NAMES
    /\ last.exc # None

\* permute() raised the exception of its test of the keyword names.
PermuteRejected == last.exc # None /\ last.exc[1].cls = PepRaise

Permuted == last.op = "permute"

\* The hint the sleuth holds is not PEP-compliant, yet its hint_sign or
\* hint_childs still describes a hint assigned earlier.
Stale(self) ==
    /\ ~is_hint_pep(self["_hint"])
    /\ (self["hint_sign"] # None \/ self["hint_childs"] # None)

\* C11: c.permute(pith=v) returns a new sleuth whose pith is v and whose func,
\* hint, hint_sign, hint_childs, cause_indent, exception_prefix and random_int
\* equal those of c.
C11_PithOverrideKeepsRest ==
    (Permuted /\ last.kwargs.keys = <<"pith">>)
        => /\ last.exc = None
           /\ last.ret = Some([last.before EXCEPT !["pith"] = last.kwargs.vals["pith"]])

\* C12: a permute() call, whether it returns or raises and whether its receiver
\* was constructed or derived, leaves every field of the receiver as it was;
\* the copy takes each field that is not overridden from the receiver, so that
\* a copy holds no override given to another copy of the same receiver.
C12_ReceiverUnchanged ==
    Permuted =>
        /\ sleuth = Some(last.before)
        /\ last.ret # None =>
              \A n \in _INIT_PARAM_NAMES \ Range(last.kwargs.keys) :
                  getattr(last.ret[1], n) = getattr(last.before, n)

\* C12's case: a permute() call that raised, on a derived sleuth (no call site
\* pairs the callable f with the pith p2).
C12_Witness ==
    /\ Permuted
    /\ last.exc # None
    /\ last.before["func"] = "f"
    /\ last.before["pith"] = "p2"

\* C13: hint_sign and hint_childs describe the hint the sleuth holds: both are
\* None when the hint is not PEP-compliant, and otherwise they are its sign and
\* its arguments.
C13_SignDescribesHint ==
    sleuth # None =>
        LET self == sleuth[1] IN
        IF is_hint_pep(self["_hint"])
        THEN /\ self["hint_sign"] = Some(get_hint_pep_sign(self["_hint"]))
             /\ self["hint_childs"] = Some(get_hint_pep_args(self["_hint"]))
        ELSE /\ self["hint_sign"] = None
             /\ self["hint_childs"] = None

\* A diagnosis of the sleuth has just ended.
Diagnosed == last.op = "diagnose"

\* Diagnosing (pith, hint) directly: a sleuth constructed for them, with the
\* other fields of self, asked for the cause.
direct(self, pith, hint) ==
    diagnose(CauseSleuth_init(InitArgs(self["func"], pith, hint, self["cause_indent"],
                                       self["exception_prefix"], self["random_int"])).obj)

SequenceDiagnosed ==
    /\ Diagnosed
    /\ sleuth[1]["hint_sign"] = Some("List")
    /\ is_hint_pep_args(sleuth[1]["_hint"])
    /\ sleuth[1]["random_int"] = None
    /\ type(sleuth[1]["pith"]) = "list"

\* The list [1, 2, "x", 3.5] has just been diagnosed against a list of str in
\* exhaustive mode.
ScenarioDiagnosed ==
    /\ SequenceDiagnosed
    /\ sleuth[1]["pith"] = "[1, 2, 'x', 3.5]"
    /\ sleuth[1]["_hint"] = "ListStr"

\* C15 as stated: the diagnosis of [1, 2, "x", 3.5] against a list of str in
\* exhaustive mode names index 3.
C15_ScenarioNamesIndex3 ==
    ScenarioDiagnosed =>
        /\ last.result.kind = "return"
        /\ last.result.value # None
        /\ last.result.value[1][2] = "3"

\* C15: the exhaustive diagnosis of a list reports the first item, in order,
\* that fails the child hint, its explanation prefixed with its index, and no
\* cause if no item fails; for [1, 2, "x", 3.5] against a list of str that is
\* index 0, the int 1.
C15_FirstFailingItem ==
    SequenceDiagnosed =>
        LET self == sleuth[1]
            cause(i) == direct(self, items(self["pith"])[i + 1], self["hint_childs"][1][1])
            failing == {i \in 0..(Len(items(self["pith"])) - 1) : cause(i) # Return(None)}
        IN /\ IF failing = {}
              THEN last.result = Return(None)
              ELSE LET first == CHOOSE i \in failing : \A j \in failing : i <= j
                   IN last.result =
                          Return(Some(<<"index ", ToString(first), " item ">>
                                      \o cause(first).value[1]))
           /\ ScenarioDiagnosed => last.result.value[1][2] = "0"

\* C15's case: [1, 2, "x", 3.5] diagnosed against a list of str in exhaustive
\* mode, the explanation naming index 0.
C15_Witness ==
    /\ ScenarioDiagnosed
    /\ last.result = Return(Some(<<"index ", "0", " item ", "1", " not instance of ",
                                   "<class '", "str", "'>">>))

\* Thread t's BeartypeConf(...) call has ended by returning a configuration.
Returned(t) ==
    /\ threads[t].pc = "done"
    /\ threads[t].result[1].kind = "return"

\* C16: two calls with equal parameter tuples that return, return the identical
\* object; no two configurations created have the same parameters, and a call
\* returns the one configuration created with its parameters; BeartypeConf()
\* returns BEARTYPE_CONF_DEFAULT.
C16_OneConfPerArgs ==
    /\ \A i, j \in 1..Len(beartype_conf_id_to_conf) :
          __eq__(beartype_conf_id_to_conf[i], beartype_conf_id_to_conf[j]) = BoolValue(1)
              => i = j
    /\ \A t \in Threads :
          Returned(t) =>
              /\ threads[t].result[1].value \in 1..Len(beartype_conf_id_to_conf)
              /\ args_eq(conf_args(beartype_conf_id_to_conf[threads[t].result[1].value]),
                         threads[t].args)
    /\ \A t, u \in Threads :
          (Returned(t) /\ Returned(u) /\ args_eq(threads[t].args, threads[u].args))
              => threads[t].result = threads[u].result
    /\ \A t \in Threads :
          (threads[t].pc = "done" /\ threads[t].args = DefaultArgs)
              => threads[t].result = Some(Return(BEARTYPE_CONF_DEFAULT))

\* C16's case: two calls with the same parameters other than the defaults have
\* returned, one of them having created the configuration.
C16_Witness ==
    \E t, u \in Threads :
        /\ t # u
        /\ Returned(t) /\ Returned(u)
        /\ threads[t].args = threads[u].args
        /\ threads[t].args # DefaultArgs
        /\ threads[t].self # None
        /\ threads[t].result = threads[u].result

\* The parameter tuple is one __new__() documents as valid.
ValidArgs(args) ==
    /\ is_bool(args[1])
    /\ is_bool_or_none(args[2])
    /\ is_bool(args[3])
    /\ is_bool(args[4])
    /\ args[5] \in BeartypeStrategy

\* C17: a call with a parameter tuple that is not valid ends by raising
\* BeartypeConfException, whatever was instantiated before.
C17_InvalidArgsRaise ==
    \A t \in Threads :
        (threads[t].pc = "done" /\ ~ValidArgs(threads[t].args))
            => /\ threads[t].result[1].kind = "raise"
               /\ threads[t].result[1].exc[1].cls = "BeartypeConfException"

\* C18: at most one thread is between the lookup and the end of the with
\* block, and it holds beartype_conf_lock; no two configurations with the same
\* parameters are created or cached, and threads returning from calls with
\* equal parameters hold the same object.
C18_OneCriticalSection ==
    /\ \A t, u \in Threads :
          ( /\ threads[t].pc \in {"lookup", "validate", "create", "exit"}
            /\ threads[u].pc \in {"lookup", "validate", "create", "exit"} ) => t = u
    /\ \A t \in Threads :
          threads[t].pc \in {"lookup", "validate", "create", "exit"}
              => beartype_conf_lock = Some(t)
    /\ \A i, j \in 1..Len(beartype_conf_id_to_conf) :
          args_eq(conf_args(beartype_conf_id_to_conf[i]),
                  conf_args(beartype_conf_id_to_conf[j])) => i = j
    /\ \A i, j \in 1..Len(beartype_conf_args_to_conf) :
          args_eq(beartype_conf_args_to_conf[i].key, beartype_conf_args_to_conf[j].key)
              => i = j
    /\ \A t, u \in Threads :
          (Returned(t) /\ Returned(u) /\ args_eq(threads[t].args, threads[u].args))
              => threads[t].result[1].value = threads[u].result[1].value

\* C18's case: a thread is about to create the configuration for parameters
\* not cached yet while another thread, called with equal parameters, waits
\* for the lock.
C18_Witness ==
    \E t, u \in Threads :
        /\ t # u
        /\ threads[t].pc = "create"
        /\ threads[u].pc = "enter"
        /\ args_eq(threads[t].args, threads[u].args)
        /\ ~dict_contains(beartype_conf_args_to_conf, threads[u].args)

ArgsLenTested == last.op = "die_unless_func_args_len_flexible_equal"

\* What get_func_args_flexible_len() does for the arguments of that call.
ArgsLenActual ==
    get_func_args_flexible_len(last.func, last.is_unwrap, last.exception_cls,
                               last.exception_prefix)

\* C20 as stated: the call raises exactly when the getter reports a number
\* that differs from func_args_len_flexible, then an exception of
\* exception_cls whose message starts with exception_prefix; it returns None
\* when the numbers are equal.
C20_RaisesExactlyWhenDiffering ==
    ArgsLenTested =>
        /\ last.result.kind = "raise"
              <=> /\ ArgsLenActual.kind = "return"
                  /\ ArgsLenActual.value # last.func_args_len_flexible
        /\ last.result.kind = "raise" =>
              /\ last.result.exc[1].cls = last.exception_cls
              /\ last.result.exc[1].msg[1] = last.exception_prefix
        /\ last.result.kind = "return" => last.result = Return(None)

\* C20: if the getter raises (func is not a pure-Python callable) the call
\* raises that exception of exception_cls; if the getter reports a number that
\* differs from func_args_len_flexible the call raises an exception of
\* exception_cls whose message starts with exception_prefix; if the number is
\* equal the call returns None.
C20_RaisesUnlessEqual ==
    ArgsLenTested =>
        IF ArgsLenActual.kind = "raise"
        THEN /\ last.result = ArgsLenActual
             /\ last.result.exc[1].cls = last.exception_cls
        ELSE IF ArgsLenActual.value # last.func_args_len_flexible
        THEN /\ last.result.kind = "raise"
             /\ last.result.exc[1].cls = last.exception_cls
             /\ last.result.exc[1].msg[1] = last.exception_prefix
             /\ last.result.exc[1].msg[2] = "callable "
        ELSE last.result = Return(None)

\* C20's case: a wrapper whose wrappee takes two flexible parameters, tested
\* for two without unwrapping: the wrapper itself takes none, and the call
\* raises with the passed class and prefix.
C20_Witness ==
    /\ ArgsLenTested
    /\ last.func = "wrapper_f2"
    /\ ~last.is_unwrap
    /\ last.func_args_len_flexible = 2
    /\ last.exception_cls = "BeartypeDecorWrappeeException"
    /\ last.exception_prefix = "@beartyped "
    /\ last.result.kind = "raise"

\* The callables reached from func by following __wrapped__, func included.
RECURSIVE wrappees(_)
wrappees(func) ==
    IF __wrapped__(func) = None THEN {func}
    ELSE {func} \cup wrappees(__wrapped__(func)[1])

\* C21: unwrap_func_all(f) is f itself when f wraps nothing, builtins
\* included; for a wrapper it is the callable at the end of the chain of
\* __wrapped__ links from f, and that callable wraps nothing.
C21_UnwrapsToLowestWrappee ==
    last.op = "unwrap_func_all" =>
        /\ __wrapped__(last.func) = None => last.result = last.func
        /\ last.result \in wrappees(last.func)
        /\ __wrapped__(last.result) = None

\* C21's case: a wrapper of a wrapper of f2 is unwrapped to f2.
C21_Witness ==
    /\ last.op = "unwrap_func_all"
    /\ last.func = "wrapper_wrapper_f2"
    /\ last.result = "f2"

\* C22: unwrap_func_classmethod() returns the function a class method
\* descriptor wraps and raises _BeartypeUtilCallableWrapperException for every
\* other object; unwrap_func_staticmethod() likewise for static method
\* descriptors.
C22_UnwrapsDescriptorOrRaises ==
    /\ last.op = "unwrap_func_classmethod" =>
          IF last.func = "classmethod(f0)"
          THEN last.result = Return("f0")
          ELSE /\ last.result.kind = "raise"
               /\ last.result.exc[1].cls = "_BeartypeUtilCallableWrapperException"
    /\ last.op = "unwrap_func_staticmethod" =>
          IF last.func = "staticmethod(f0)"
          THEN last.result = Return("f0")
          ELSE /\ last.result.kind = "raise"
               /\ last.result.exc[1].cls = "_BeartypeUtilCallableWrapperException"

\* C22's case: the class method unwrapper has raised for an object that is
\* not a class method descriptor.
C22_Witness ==
    /\ last.op = "unwrap_func_classmethod"
    /\ last.func \in {"f0", "len", "C().method", "staticmethod(f0)"}
    /\ last.result.kind = "raise"

\* Whether a tester has returned a true value.
ReturnedTrue(outcome) == outcome.kind = "return" /\ outcome.value.n # 0

\* The callable whose signature the testers of the last call inspect.
Inspected == IF last.is_unwrap THEN unwrap_func_all(last.func) ELSE last.func

\* C24: called with the same arguments, is_func_arg_variadic() is true exactly
\* when is_func_arg_variadic_positional() or is_func_arg_variadic_keyword()
\* is true, and it is false for a callable accepting neither *args nor
\* **kwargs.
C24_VariadicIffPositionalOrKeyword ==
    last.op = "is_func_arg_variadic" =>
        /\ ReturnedTrue(last.variadic) <=>
               (ReturnedTrue(last.positional) \/ ReturnedTrue(last.keyword))
        /\ (/\ last.func \notin {"len", "42"}
            /\ ~has_var_positional(Inspected)
            /\ ~has_var_keyword(Inspected)) => last.variadic = Return(BoolValue(0))

\* C24's case: a callable accepting **kwargs only has been tested, and the
\* general tester is true with the keyword tester.
C24_Witness ==
    /\ last.op = "is_func_arg_variadic"
    /\ last.func = "fkwargs"
    /\ ReturnedTrue(last.variadic)
    /\ ~ReturnedTrue(last.positional)
    /\ ReturnedTrue(last.keyword)

\* The five settings of two configurations are pairwise equal.
SettingsEqual(a, b) == \A s \in BeartypeConf__slots__ : py_eq(a[s], b[s])

\* C23: a == b is True exactly when the five settings of the configurations a
\* and b are pairwise equal and False otherwise, a == b implies
\* hash(a) == hash(b), and comparing a configuration with an object that is
\* not a BeartypeConf yields NotImplemented.
C23_EqHashNotImplemented ==
    last.op = "__eq__" =>
        IF isinstance_BeartypeConf(last.other)
        THEN /\ last.result \in {BoolValue(0), BoolValue(1)}
             /\ last.result = BoolValue(1) <=> SettingsEqual(last.self, last.other)
             /\ last.result = BoolValue(1) => last.hash_other = Some(last.hash_self)
        ELSE last.result = NotImplemented

\* C23's case: two configurations differing in is_debug and strategy only have
\* compared unequal.
C23_Witness ==
    /\ last.op = "__eq__"
    /\ isinstance_BeartypeConf(last.other)
    /\ py_eq(last.self["_claw_is_pep526"], last.other["_claw_is_pep526"])
    /\ ~py_eq(last.self["_is_debug"], last.other["_is_debug"])
    /\ last.result = BoolValue(0)

\* C25: a call of a class that returns, returns an instance of that class: a
\* subclass call never returns an instance of BeartypeConf itself, a
\* BeartypeConf call never an instance of the subclass.
C25_ReturnsInstanceOfCls ==
    \A t \in Threads :
        Returned(t) =>
            beartype_conf_id_to_conf[threads[t].result[1].value]["__class__"]
                = threads[t].cls[1]

\* A permute() call overriding the hint, with keywords __init__() accepts, has
\* just ended.
HintOverridden ==
    /\ Permuted
    /\ "hint" \in Range(last.kwargs.keys)
    /\ unrecognized(last.kwargs) = {}

\* C26: in the copy permute() returns when the hint is overridden, hint_sign
\* and hint_childs classify the new hint only: both are None when the new
\* hint, normalized, is not PEP-compliant, whatever the receiver held; and the
\* new hint is normalized with the copy's exception_prefix, the override if one
\* was given, so that an exception of the normalizer carries that label.
C26_CopyClassifiesNewHint ==
    HintOverridden =>
        LET sane == sanify_hint_child(last.kwargs.vals["hint"], PermutedPrefix) IN
        IF sane.kind = "raise"
        THEN last.exc = sane.exc /\ last.ret = None
        ELSE /\ last.exc = None
             /\ last.ret # None
             /\ last.ret[1]["_hint"] = sane.value
             /\ last.ret[1]["exception_prefix"] = PermutedPrefix
             /\ IF is_hint_pep(sane.value)
                THEN /\ last.ret[1]["hint_sign"] = Some(get_hint_pep_sign(sane.value))
                     /\ last.ret[1]["hint_childs"] = Some(get_hint_pep_args(sane.value))
                ELSE /\ last.ret[1]["hint_sign"] = None
                     /\ last.ret[1]["hint_childs"] = None

\* C26's case: the receiver holds a sign, the hint is overridden with one that
\* is not PEP-compliant and the label with another one, and the copy holds
\* neither sign nor children.
C26_Witness ==
    /\ HintOverridden
    /\ last.before["hint_sign"] # None
    /\ "exception_prefix" \in Range(last.kwargs.keys)
    /\ last.kwargs.vals["exception_prefix"] # last.before["exception_prefix"]
    /\ last.ret # None
    /\ ~is_hint_pep(last.ret[1]["_hint"])
    /\ last.ret[1]["hint_sign"] = None
    /\ last.ret[1]["hint_childs"] = None

====
